---------------------------- MODULE Spec2Model ----------------------------
(***************************************************************************)
(* Model of src/analyzer.py: PDF text extraction, lazy NLTK resource       *)
(* initialisation, tokenisation and keyword matching against the static    *)
(* skill taxonomy.                                                         *)
(*                                                                         *)
(* Strings that the code inspects character by character (texts, tokens,   *)
(* keywords) are sequences of one-character strings, so that lower(),      *)
(* split(), isalpha() and word_tokenize() are computed, not assumed.       *)
(* Field labels are never taken apart and stay TLA+ strings.               *)
(***************************************************************************)
EXTENDS Integers, Sequences, FiniteSets, TLC

(***************************************************************************)
(* Bounds of the model.                                                    *)
(***************************************************************************)
\* Longest text, in whitespace-separated chunks, drawn as input.
MaxWords == 3
\* Most pages of a PDF document.
MaxPages == 3

(***************************************************************************)
(* Characters.                                                             *)
(***************************************************************************)
LowerLetters ==
   <<"a","b","c","d","e","f","g","h","i","j","k","l","m",
     "n","o","p","q","r","s","t","u","v","w","x","y","z">>

UpperLetters ==
   <<"A","B","C","D","E","F","G","H","I","J","K","L","M",
     "N","O","P","Q","R","S","T","U","V","W","X","Y","Z">>

\* The characters str.isalpha() accepts, among those the model's texts use.
Alphabetic == {LowerLetters[i] : i \in 1..26} \cup {UpperLetters[i] : i \in 1..26}

\* The characters str.split() splits on.
Whitespace == {" ", "\n", "\t"}

\* Punctuation that nltk's word_tokenize always makes a token of its own
\* (hyphens and digits stay inside the word they are part of).
Punctuation == {",", ";", "!", "?"}

\* Python's None, as a text argument.
None == <<"None">>

\* str.lower() on one character.
LowerChar(c) ==
   IF \E i \in 1..26 : UpperLetters[i] = c
   THEN LowerLetters[CHOOSE i \in 1..26 : UpperLetters[i] = c]
   ELSE c

\* str.lower()
Lower(s) == [i \in 1..Len(s) |-> LowerChar(s[i])]

\* Mutant of IsAlpha: str.isalnum() in place of str.isalpha().
IsAlpha_alnum(t) ==
   Len(t) > 0 /\ \A i \in 1..Len(t) : t[i] \in Alphabetic \cup {"0","1","2","3","4","5","6","7","8","9"}

\* str.isalpha(): non-empty and every character alphabetic.
IsAlpha(t) == Len(t) > 0 /\ \A i \in 1..Len(t) : t[i] \in Alphabetic

RECURSIVE SplitOn(_, _, _, _, _)
\* One left-to-right scan of s from position i: characters of `seps` end the
\* current word `cur` and are dropped, characters of `own` end it and are
\* tokens of their own; `out` is the list of tokens so far.
SplitOn(s, i, cur, out, sets) ==
   LET flush == IF cur = <<>> THEN out ELSE Append(out, cur)
   IN IF i > Len(s) THEN flush
      ELSE IF s[i] \in sets.seps THEN SplitOn(s, i + 1, <<>>, flush, sets)
      ELSE IF s[i] \in sets.own
           THEN SplitOn(s, i + 1, <<>>, Append(flush, <<s[i]>>), sets)
      ELSE SplitOn(s, i + 1, Append(cur, s[i]), out, sets)

\* str.split() with no argument: maximal runs of non-whitespace.
PySplit(s) == SplitOn(s, 1, <<>>, <<>>, [seps |-> Whitespace, own |-> {}])

\* nltk.tokenize.word_tokenize, when its tokenizer data is present: words
\* and punctuation marks are separate tokens.
WordTokenize(s) ==
   SplitOn(s, 1, <<>>, <<>>, [seps |-> Whitespace, own |-> Punctuation])

\* nltk's stopwords.words("english"), restricted to the words the model's
\* texts can contain ("the", "and", "of", "a").
EnglishStopwords ==
   { <<"t","h","e">>, <<"a","n","d">>, <<"o","f">>, <<"a">> }

(***************************************************************************)
(* The skill taxonomy, in definition order.                                *)
(***************************************************************************)
skill_keywords ==
   <<
      [field |-> "data science", kws |-> <<
         <<"p","y","t","h","o","n">>,  \* python
         <<"p","a","n","d","a","s">>,  \* pandas
         <<"n","u","m","p","y">>,  \* numpy
         <<"s","c","i","k","i","t","-","l","e","a","r","n">>,  \* scikit-learn
         <<"t","e","n","s","o","r","f","l","o","w">>,  \* tensorflow
         <<"k","e","r","a","s">>,  \* keras
         <<"p","y","t","o","r","c","h">>,  \* pytorch
         <<"m","a","c","h","i","n","e"," ","l","e","a","r","n","i","n","g">>,  \* machine learning
         <<"d","e","e","p"," ","l","e","a","r","n","i","n","g">>,  \* deep learning
         <<"n","l","p">>,  \* nlp
         <<"s","t","a","t","i","s","t","i","c","s">>,  \* statistics
         <<"s","q","l">>,  \* sql
         <<"m","o","d","e","l","i","n","g">>   \* modeling
      >>],
      [field |-> "web development", kws |-> <<
         <<"h","t","m","l">>,  \* html
         <<"c","s","s">>,  \* css
         <<"j","a","v","a","s","c","r","i","p","t">>,  \* javascript
         <<"r","e","a","c","t">>,  \* react
         <<"v","u","e">>,  \* vue
         <<"a","n","g","u","l","a","r">>,  \* angular
         <<"n","o","d","e">>,  \* node
         <<"e","x","p","r","e","s","s">>,  \* express
         <<"d","j","a","n","g","o">>,  \* django
         <<"f","l","a","s","k">>,  \* flask
         <<"t","y","p","e","s","c","r","i","p","t">>   \* typescript
      >>],
      [field |-> "marketing", kws |-> <<
         <<"m","a","r","k","e","t","i","n","g">>,  \* marketing
         <<"s","e","o">>,  \* seo
         <<"b","r","a","n","d","i","n","g">>,  \* branding
         <<"a","d","v","e","r","t","i","s","i","n","g">>,  \* advertising
         <<"c","o","n","t","e","n","t">>,  \* content
         <<"c","a","m","p","a","i","g","n">>   \* campaign
      >>],
      [field |-> "sales", kws |-> <<
         <<"s","a","l","e","s">>,  \* sales
         <<"c","r","m">>,  \* crm
         <<"n","e","g","o","t","i","a","t","i","o","n">>,  \* negotiation
         <<"l","e","a","d"," ","g","e","n","e","r","a","t","i","o","n">>,  \* lead generation
         <<"b","2","b">>,  \* b2b
         <<"b","2","c">>   \* b2c
      >>],
      [field |-> "graphic design", kws |-> <<
         <<"p","h","o","t","o","s","h","o","p">>,  \* photoshop
         <<"i","l","l","u","s","t","r","a","t","o","r">>,  \* illustrator
         <<"f","i","g","m","a">>,  \* figma
         <<"u","i">>,  \* ui
         <<"u","x">>,  \* ux
         <<"a","d","o","b","e">>   \* adobe
      >>],
      [field |-> "medicine", kws |-> <<
         <<"m","e","d","i","c","a","l">>,  \* medical
         <<"c","l","i","n","i","c","a","l">>,  \* clinical
         <<"p","a","t","i","e","n","t">>,  \* patient
         <<"d","i","a","g","n","o","s","i","s">>,  \* diagnosis
         <<"s","u","r","g","e","r","y">>,  \* surgery
         <<"n","u","r","s","e">>   \* nurse
      >>],
      [field |-> "finance", kws |-> <<
         <<"a","c","c","o","u","n","t","i","n","g">>,  \* accounting
         <<"f","i","n","a","n","c","e">>,  \* finance
         <<"b","u","d","g","e","t","i","n","g">>,  \* budgeting
         <<"e","x","c","e","l">>,  \* excel
         <<"a","u","d","i","t">>,  \* audit
         <<"t","a","x">>   \* tax
      >>],
      [field |-> "education", kws |-> <<
         <<"t","e","a","c","h","e","r">>,  \* teacher
         <<"c","u","r","r","i","c","u","l","u","m">>,  \* curriculum
         <<"l","e","s","s","o","n">>,  \* lesson
         <<"t","r","a","i","n","i","n","g">>,  \* training
         <<"s","t","u","d","e","n","t">>   \* student
      >>],
      [field |-> "engineering", kws |-> <<
         <<"c","a","d">>,  \* cad
         <<"m","e","c","h","a","n","i","c","a","l">>,  \* mechanical
         <<"e","l","e","c","t","r","i","c","a","l">>,  \* electrical
         <<"c","i","v","i","l">>,  \* civil
         <<"a","u","t","o","c","a","d">>   \* autocad
      >>],
      [field |-> "law", kws |-> <<
         <<"l","a","w">>,  \* law
         <<"l","e","g","a","l">>,  \* legal
         <<"c","o","n","t","r","a","c","t">>,  \* contract
         <<"c","o","m","p","l","i","a","n","c","e">>,  \* compliance
         <<"l","i","t","i","g","a","t","i","o","n">>   \* litigation
      >>]
   >>

NumFields == Len(skill_keywords)

FieldNames == {skill_keywords[i].field : i \in 1..NumFields}

AllKeywords ==
   UNION {{skill_keywords[i].kws[j] : j \in 1..Len(skill_keywords[i].kws)}
             : i \in 1..NumFields}

\* kw.lower().split() of every keyword of the (static) taxonomy.
KeywordParts ==
   LET f == [kw \in AllKeywords |-> [lower |-> Lower(kw), parts |-> PySplit(Lower(kw))]]
   IN f @@ f

(***************************************************************************)
(* Keyword matching.                                                       *)
(***************************************************************************)
\* Mutant of KeywordPresent: any() in place of all() for a multi-word keyword.
KeywordPresent_any(kw, tokens) ==
   LET parts == KeywordParts[kw].parts
   IN IF Len(parts) > 1
      THEN \E k \in 1..Len(parts) : parts[k] \in tokens
      ELSE KeywordParts[kw].lower \in tokens

\* The presence condition of the two matchers: a multi-word keyword needs
\* all of its words in the token set, a single-word one needs kw.lower().
KeywordPresent(kw, tokens) ==
   LET parts == KeywordParts[kw].parts
   IN IF Len(parts) > 1
      THEN \A k \in 1..Len(parts) : parts[k] \in tokens
      ELSE KeywordParts[kw].lower \in tokens

\* The inner loop of extract_skills over the keywords of field i: the
\* keywords whose presence condition holds, in list order.
DetectedInField(i, tokens) ==
   SelectSeq(skill_keywords[i].kws, LAMBDA kw : KeywordPresent(kw, tokens))

RECURSIVE Detected_prepend(_, _, _)
\* Mutant of Detected: each field's matches are put in front of the list.
Detected_prepend(i, detected, tokens) ==
   IF i > NumFields THEN detected
   ELSE Detected_prepend(i + 1, DetectedInField(i, tokens) \o detected, tokens)

RECURSIVE Detected(_, _, _)
\* The outer loop of extract_skills from field i on: `detected` gets every
\* keyword whose presence condition holds, in iteration order.
Detected(i, detected, tokens) ==
   IF i > NumFields THEN detected
   ELSE Detected(i + 1, detected \o DetectedInField(i, tokens), tokens)

RECURSIVE Uniq(_, _, _, _)
\* The de-duplication loop of extract_skills.
Uniq(detected, n, seen, uniq) ==
   IF n > Len(detected) THEN uniq
   ELSE IF detected[n] \notin seen
        THEN Uniq(detected, n + 1, seen \cup {detected[n]}, Append(uniq, detected[n]))
        ELSE Uniq(detected, n + 1, seen, uniq)

\* extract_skills, given set(_tokenize(text)).
SkillsOf(tokens) == Uniq(Detected(1, <<>>, tokens), 1, {}, <<>>)

\* Mutant of FieldScore: a matched keyword adds the number of its words.
FieldScore_parts(i, tokens) ==
   LET kws == skill_keywords[i].kws
       hit == {j \in 1..Len(kws) : KeywordPresent(kws[j], tokens)}
       multi == {j \in hit : Len(KeywordParts[kws[j]].parts) > 1}
   IN Cardinality(hit) + Cardinality(multi)

\* The inner loop of detect_job_field: the score of field i is the number
\* of entries of its keyword list whose presence condition holds.
FieldScore(i, tokens) ==
   Cardinality({j \in 1..Len(skill_keywords[i].kws) :
                  KeywordPresent(skill_keywords[i].kws[j], tokens)})

\* Mutant of Better: >= in place of >.
Better_ge(score, best_score) == score >= best_score

\* score > best_score: only a strictly greater score replaces the best.
Better(score, best_score) == score > best_score

RECURSIVE BestField(_, _, _, _)
\* The outer loop of detect_job_field from field i on.
BestField(i, best_field, best_score, tokens) ==
   IF i > NumFields THEN best_field
   ELSE LET score == FieldScore(i, tokens)
        IN IF Better(score, best_score)
           THEN BestField(i + 1, skill_keywords[i].field, score, tokens)
           ELSE BestField(i + 1, best_field, best_score, tokens)

\* Mutant of FieldOf: best_field starts as the first field of the taxonomy.
FieldOf_first(tokens) == BestField(1, skill_keywords[1].field, 0, tokens)

\* detect_job_field, given set(_tokenize(text)).
FieldOf(tokens) == BestField(1, "General", 0, tokens)

(***************************************************************************)
(* State.                                                                  *)
(***************************************************************************)
VARIABLES
   text,        \* the text the caller passes to the matcher entry points
   nltk_needs,  \* the tokenizer data the installed NLTK's word_tokenize loads
   installed,   \* the local NLTK resource cache (nltk_data)
   call,        \* the last call of extract_skills / detect_job_field
   pdf_doc,     \* what the last extract_text_from_pdf call met at its path
   pdf_text     \* what that call returned

vars == <<text, nltk_needs, installed, call, pdf_doc, pdf_text>>

Resources == {"stopwords", "punkt", "punkt_tab"}

\* What an nltk.download(...) call can do: fetch the resource, fail quietly
\* (it returns False, nothing is installed) or raise.
DownloadOutcomes == {"ok", "fail", "raise"}

(***************************************************************************)
(* _ensure_nltk_resources                                                  *)
(***************************************************************************)
\* nltk.download(res, quiet=True) with the given outcome, in progress `st` of
\* the initializer.
Download(st, res, outcome) ==
   [st EXCEPT !.downloads = Append(@, res),
              !.installed = IF outcome = "ok" THEN @ \cup {res} ELSE @,
              !.raised    = (outcome = "raise")]

\* A lookup (stopwords.words / nltk.data.find) that raised LookupError.
LookupFailed(st, res) == [st EXCEPT !.lookups_failed = @ \cup {res}]

\* The stopwords block: lookup, download on LookupError.
EnsureStopwords(st, o) ==
   IF "stopwords" \in st.installed THEN st
   ELSE Download(LookupFailed(st, "stopwords"), "stopwords", o.stopwords)

\* Mutant of EnsureTokenizers: only the legacy name is looked up.
EnsureTokenizers_legacy(st, o) ==
   IF "punkt" \in st.installed THEN st
   ELSE LET s2 == Download(LookupFailed(LookupFailed(st, "punkt"), "punkt_tab"),
                           "punkt_tab", o.punkt_tab)
        IN IF s2.raised THEN Download(s2, "punkt", o.punkt) ELSE s2

\* The tokenizers block: punkt lookup, then punkt_tab lookup, then the
\* download of punkt_tab and, only if that raises, of punkt.
EnsureTokenizers(st, o) ==
   IF "punkt" \in st.installed THEN st
   ELSE LET s1 == LookupFailed(st, "punkt")
        IN IF "punkt_tab" \in s1.installed THEN s1
           ELSE LET s2 == Download(LookupFailed(s1, "punkt_tab"), "punkt_tab", o.punkt_tab)
                IN IF s2.raised THEN Download(s2, "punkt", o.punkt)
                   ELSE s2

\* _ensure_nltk_resources from cache `cache`: an exception of the stopwords
\* download leaves the function before the tokenizers block.
EnsureNltkResources(cache, o) ==
   LET s0 == [installed |-> cache, lookups_failed |-> {}, downloads |-> <<>>,
              raised |-> FALSE]
       s1 == EnsureStopwords(s0, o)
   IN IF s1.raised THEN s1 ELSE EnsureTokenizers(s1, o)

\* The outcomes of the downloads a call can attempt from cache `cache` (a
\* download that is not attempted has no outcome: "-").
OutcomesFrom(cache) ==
   { o \in [stopwords : DownloadOutcomes \cup {"-"},
            punkt_tab : DownloadOutcomes \cup {"-"},
            punkt     : DownloadOutcomes \cup {"-"}] :
       /\ (o.stopwords = "-") <=> ("stopwords" \in cache)
       /\ (o.punkt_tab = "-") <=>
             (o.stopwords = "raise" \/ "punkt" \in cache \/ "punkt_tab" \in cache)
       /\ (o.punkt = "-") <=> (o.punkt_tab # "raise") }

(***************************************************************************)
(* _tokenize                                                               *)
(***************************************************************************)
\* (text or "").lower()
Normalize(t) == IF t = None THEN <<>> ELSE Lower(t)

\* Which branch of the try/except around word_tokenize produces the tokens:
\* word_tokenize raises LookupError unless the data it loads is installed.
TokenizerOf(cache, needs) == IF needs \in cache THEN "word_tokenize" ELSE "split"

\* Whether stopwords.words("english") loads in _tokenize.
HasStopwords(cache) == "stopwords" \in cache

\* tokens, by the branch taken.
RawTokens(t, tokenizer) ==
   IF tokenizer = "word_tokenize"
   THEN WordTokenize(Normalize(t))
   ELSE PySplit(Normalize(t))

\* sw: the stopword set, left empty when the list cannot be loaded.
StopwordSet(has_stopwords) == IF has_stopwords THEN EnglishStopwords ELSE {}

\* Mutant of Keep: the filter is skipped when no stopword list was loaded.
Keep_if_loaded(t, sw) == sw = {} \/ (IsAlpha(t) /\ t \notin sw)

\* t.isalpha() and t not in sw
Keep(t, sw) == IsAlpha(t) /\ t \notin sw

\* The body of _tokenize after _ensure_nltk_resources() has returned.
Tokenize(t, tokenizer, has_stopwords) ==
   LET sw == StopwordSet(has_stopwords)
   IN SelectSeq(RawTokens(t, tokenizer), LAMBDA tok : Keep(tok, sw))

\* set(_tokenize(text))
TokenSet(t, tokenizer, has_stopwords) ==
   LET toks == Tokenize(t, tokenizer, has_stopwords)
   IN {toks[i] : i \in 1..Len(toks)}

(***************************************************************************)
(* Inputs.                                                                 *)
(***************************************************************************)
\* Whitespace-separated chunks of the input texts:
\*   "Sql,"  a data-science keyword, capitalised, with a comma attached
\*   "css", "vue"  two web-development keywords
\*   "lead", "generation"  the words of the sales keyword "lead generation"
\*   "the"  a stopword
\*   "b2b"  a sales keyword with a digit in it
Chunks ==
   { <<"S","q","l",",">>, <<"c","s","s">>, <<"v","u","e">>,
     <<"l","e","a","d">>, <<"g","e","n","e","r","a","t","i","o","n">>,
     <<"t","h","e">>, <<"b","2","b">> }

RECURSIVE JoinWith(_, _)
\* sep.join(parts)
JoinWith(parts, sep) ==
   IF parts = <<>> THEN <<>>
   ELSE IF Len(parts) = 1 THEN parts[1]
   ELSE parts[1] \o sep \o JoinWith(Tail(parts), sep)

\* Absent, empty and whitespace-only texts.
BlankTexts == {None, <<>>, <<" ">>, <<"\n"," ","\t">>}

Texts ==
   BlankTexts \cup
   {JoinWith(ws, <<" ">>) : ws \in UNION {[1..n -> Chunks] : n \in 1..MaxWords}}

NoCall ==
   [op |-> "none", raised |-> FALSE, tokenizer |-> "none", stopwords |-> FALSE,
    tokens |-> {}, skills |-> <<>>, scores |-> <<>>, field |-> "",
    lookups_failed |-> {}, downloads |-> <<>>]

NoDoc == [opens |-> FALSE, pages |-> <<>>]

(***************************************************************************)
(* extract_skills and detect_job_field                                     *)
(***************************************************************************)
\* Per-field scores of detect_job_field, as its outer loop computes them.
ScoresOf(tokens) == [i \in 1..NumFields |-> FieldScore(i, tokens)]

\* What the two entry points compute from `t` once the initializer has
\* returned, by the tokenizer branch taken and the stopword list's presence.
Matched(t, tokenizer, has_stopwords) ==
   LET tokens == TokenSet(t, tokenizer, has_stopwords)
   IN [tokens |-> tokens, skills |-> SkillsOf(tokens),
       scores |-> ScoresOf(tokens), field |-> FieldOf(tokens)]

\* Matched, tabulated once over the inputs of the model (@@ makes each table
\* an explicit function instead of a rule re-evaluated at every use).
MatchedTable ==
   LET f == [t \in Texts |->
               LET g == [k \in {"word_tokenize", "split"} \X BOOLEAN |->
                           Matched(t, k[1], k[2])]
               IN g @@ <<>>]
   IN f @@ <<>>

\* The ways _ensure_nltk_resources can run from each cache, one per
\* combination of download outcomes (tabulated once).
InitializerRuns ==
   LET f == [cache \in SUBSET Resources |->
               {EnsureNltkResources(cache, o) : o \in OutcomesFrom(cache)}]
   IN f @@ <<>>

\* A call of entry point `op` in which the initializer runs as `st`:
\* _tokenize calls the initializer first; if that raises, the exception
\* reaches the caller and nothing is returned.
Call(op, st) ==
   LET m == MatchedTable[text][<<TokenizerOf(st.installed, nltk_needs),
                                 HasStopwords(st.installed)>>]
       base == [NoCall EXCEPT !.op = op, !.raised = st.raised,
                              !.lookups_failed = st.lookups_failed,
                              !.downloads = st.downloads]
   IN /\ installed' = st.installed
      /\ call' = IF st.raised THEN base
                 ELSE [base EXCEPT
                         !.tokenizer = TokenizerOf(st.installed, nltk_needs),
                         !.stopwords = HasStopwords(st.installed),
                         !.tokens = m.tokens,
                         !.skills = IF op = "extract_skills" THEN m.skills ELSE <<>>,
                         !.scores = IF op = "detect_job_field" THEN m.scores ELSE <<>>,
                         !.field = IF op = "detect_job_field" THEN m.field ELSE ""]
      /\ UNCHANGED <<text, nltk_needs, pdf_doc, pdf_text>>

ExtractSkills == \E st \in InitializerRuns[installed] : Call("extract_skills", st)

DetectJobField == \E st \in InitializerRuns[installed] : Call("detect_job_field", st)

(***************************************************************************)
(* extract_text_from_pdf                                                   *)
(***************************************************************************)
\* Page texts page.get_text() can return.
PageTexts == { <<>>, <<"c","s","s">>, <<"S","q","l",",","\n">> }

\* A page whose get_text() raises.
BadPage == <<"<error>">>

Documents ==
   [opens : BOOLEAN,
    pages : UNION {[1..n -> PageTexts \cup {BadPage}] : n \in 0..MaxPages}]

\* Mutant of OnPageError: the pages read so far are returned.
OnPageError_partial(text_parts) == JoinWith(text_parts, <<"\n">>)

\* What the except clause returns once page n has raised, text_parts holding
\* the pages read before it.
OnPageError(text_parts) == <<>>

RECURSIVE ReadPages(_, _, _)
\* The page loop from page n on, then the join.
ReadPages(pages, n, text_parts) ==
   IF n > Len(pages) THEN JoinWith(text_parts, <<"\n">>)
   ELSE IF pages[n] = BadPage THEN OnPageError(text_parts)
   ELSE ReadPages(pages, n + 1, Append(text_parts, pages[n]))

PdfText(doc) == IF ~doc.opens THEN <<>> ELSE ReadPages(doc.pages, 1, <<>>)

ExtractTextFromPdf ==
   \E doc \in Documents :
      /\ pdf_doc' = doc
      /\ pdf_text' = PdfText(doc)
      /\ UNCHANGED <<text, nltk_needs, installed, call>>

(***************************************************************************)
(* Specifications.                                                         *)
(***************************************************************************)
\* The matcher: any text, any initial resource cache, either NLTK generation.
Init ==
   /\ text \in Texts
   /\ nltk_needs \in {"punkt", "punkt_tab"}
   /\ installed \in SUBSET Resources
   /\ call = NoCall
   /\ pdf_doc = NoDoc
   /\ pdf_text = <<>>

Next == ExtractSkills \/ DetectJobField

Spec == Init /\ [][Next]_vars

\* The PDF extractor on its own.
InitPdf ==
   /\ text = <<>>
   /\ nltk_needs = "punkt_tab"
   /\ installed = Resources
   /\ call = NoCall
   /\ pdf_doc = NoDoc
   /\ pdf_text = <<>>

NextPdf == ExtractTextFromPdf

SpecPdf == InitPdf /\ [][NextPdf]_vars

(***************************************************************************)
(* Properties.  The presence condition, the iteration order and the join   *)
(* are restated here from their descriptions, not taken from the           *)
(* operators above.                                                        *)
(***************************************************************************)
\* The words of a keyword: its maximal runs of characters other than space.
WordsOf ==
   LET f == [kw \in AllKeywords |->
               {SubSeq(kw, a, b) : <<a, b>> \in
                  {p \in (1..Len(kw)) \X (1..Len(kw)) :
                     /\ p[1] <= p[2]
                     /\ \A n \in p[1]..p[2] : kw[n] # " "
                     /\ (p[1] = 1 \/ kw[p[1] - 1] = " ")
                     /\ (p[2] = Len(kw) \/ kw[p[2] + 1] = " ")}}]
   IN f @@ <<>>

\* The presence condition: every word of the keyword is in the token set.
Holds(kw, tokens) == WordsOf[kw] \subseteq tokens

MultiWord == {kw \in AllKeywords : Cardinality(WordsOf[kw]) > 1}

\* Keywords with a character that is neither a letter nor a space.
NonAlphabetic ==
   {kw \in AllKeywords : \E n \in 1..Len(kw) : kw[n] \notin Alphabetic \cup {" "}}

\* The position of a keyword in taxonomy iteration order: the first field
\* that lists it, and its first place in that field's list.
Position ==
   LET in(i) == {skill_keywords[i].kws[j] : j \in 1..Len(skill_keywords[i].kws)}
       f == [kw \in AllKeywords |->
               LET i == CHOOSE i \in 1..NumFields :
                           kw \in in(i) /\ \A h \in 1..(i - 1) : kw \notin in(h)
                   j == CHOOSE j \in 1..Len(skill_keywords[i].kws) :
                           /\ skill_keywords[i].kws[j] = kw
                           /\ \A h \in 1..(j - 1) : skill_keywords[i].kws[h] # kw
               IN <<i, j>>]
   IN f @@ <<>>

Before(k1, k2) ==
   \/ Position[k1][1] < Position[k2][1]
   \/ Position[k1][1] = Position[k2][1] /\ Position[k1][2] < Position[k2][2]

\* The number of keywords of field i whose presence condition holds.
Count(i, tokens) ==
   Cardinality({j \in 1..Len(skill_keywords[i].kws) :
                  Holds(skill_keywords[i].kws[j], tokens)})

Returned(op) == call.op = op /\ ~call.raised

Range(seq) == {seq[n] : n \in 1..Len(seq)}

LeadGeneration == <<"l","e","a","d"," ","g","e","n","e","r","a","t","i","o","n">>

Lead == <<"l","e","a","d">>

Generation == <<"g","e","n","e","r","a","t","i","o","n">>

FieldIndex(name) == CHOOSE i \in 1..NumFields : skill_keywords[i].field = name

\* C1: whenever detect_job_field returns, the score of each field is the
\* number of its keywords whose presence condition holds in the token set,
\* and if some score is positive the returned field has the highest score
\* and is the first field, in taxonomy order, with that score.
C1_HighestScoreFirstWins ==
   Returned("detect_job_field") =>
      /\ \A i \in 1..NumFields : call.scores[i] = Count(i, call.tokens)
      /\ (\E i \in 1..NumFields : call.scores[i] > 0) =>
            \E i \in 1..NumFields :
               /\ call.field = skill_keywords[i].field
               /\ \A j \in 1..NumFields : call.scores[j] <= call.scores[i]
               /\ \A j \in 1..(i - 1) : call.scores[j] < call.scores[i]

\* C1 witness: data science and web development tie at the top with one
\* keyword each, and the earlier field, data science, is returned.
C1_Witness ==
   /\ Returned("detect_job_field")
   /\ call.scores[FieldIndex("data science")] = 1
   /\ call.scores[FieldIndex("web development")] = 1
   /\ \A j \in 1..NumFields : call.scores[j] <= 1
   /\ call.field = "data science"

\* C2: no call of extract_skills or detect_job_field raises: each returns a
\* list of keywords, respectively a field label, whatever the lookups and
\* the downloads do.
C2_NeverRaises ==
   call.op # "none" =>
      /\ ~call.raised
      /\ call.op = "extract_skills" => Range(call.skills) \subseteq AllKeywords
      /\ call.op = "detect_job_field" => call.field \in FieldNames \cup {"General"}

\* The text of the pages, each but the last followed by a newline.
PagesJoined(pages) ==
   LET piece(n) == IF n < Len(pages) THEN pages[n] \o <<"\n">> ELSE pages[n]
       upto[n \in 0..Len(pages)] == IF n = 0 THEN <<>> ELSE upto[n - 1] \o piece(n)
   IN upto[Len(pages)]

\* C3: extract_text_from_pdf returns the page texts joined by newlines, in
\* page order, if the document opens and every page is read, and the empty
\* string, without the text of any page, otherwise.
C3_AllOrNothing ==
   pdf_text = IF pdf_doc.opens /\ BadPage \notin Range(pdf_doc.pages)
              THEN PagesJoined(pdf_doc.pages)
              ELSE <<>>

\* C3 witness: a document whose first page has text and whose second page of
\* three cannot be read yields the empty string.
C3_Witness ==
   /\ pdf_doc.opens
   /\ Len(pdf_doc.pages) = 3
   /\ pdf_doc.pages[1] = <<"c","s","s">>
   /\ pdf_doc.pages[2] = BadPage
   /\ pdf_doc.pages[3] # BadPage
   /\ pdf_text = <<>>

\* C4: the list extract_skills returns has no string twice, holds exactly
\* the keywords whose presence condition holds, and lists them in taxonomy
\* iteration order (fields in definition order, keywords in list order).
C4_UniqueInFirstDetectedOrder ==
   Returned("extract_skills") =>
      /\ \A a, b \in 1..Len(call.skills) :
            a < b => /\ call.skills[a] # call.skills[b]
                     /\ Before(call.skills[a], call.skills[b])
      /\ Range(call.skills) = {kw \in AllKeywords : Holds(kw, call.tokens)}

\* C4 witness: for the text "generation css lead" the keywords of two fields
\* are returned, web development's before sales'.
C4_Witness ==
   /\ Returned("extract_skills")
   /\ text = Generation \o <<" ","c","s","s"," ">> \o Lead
   /\ call.skills = <<<<"c","s","s">>, LeadGeneration>>

\* C5: a multi-word keyword is matched exactly when all its words are in the
\* token set: extract_skills returns it then and only then, and
\* detect_job_field counts it then and only then; with "lead" and
\* "generation" in the token set and no other keyword satisfied the results
\* are ["lead generation"] and "sales".
C5_MultiWordCooccurrence ==
   /\ Returned("extract_skills") =>
         /\ \A kw \in MultiWord :
               (kw \in Range(call.skills)) <=> (WordsOf[kw] \subseteq call.tokens)
         /\ ({kw \in AllKeywords : Holds(kw, call.tokens)} = {LeadGeneration})
               => call.skills = <<LeadGeneration>>
   /\ Returned("detect_job_field") =>
         /\ \A i \in 1..NumFields : call.scores[i] = Count(i, call.tokens)
         /\ ({kw \in AllKeywords : Holds(kw, call.tokens)} = {LeadGeneration})
               => call.field = "sales"
         /\ (Cardinality({Lead, Generation} \cap call.tokens) = 1
               /\ {kw \in AllKeywords : Holds(kw, call.tokens)} = {})
               => call.field = "General"

\* C5 witness: the text "generation the lead", the words in reverse order
\* with another word between them, yields "lead generation".
C5_Witness ==
   /\ text = Generation \o <<" ","t","h","e"," ">> \o Lead
   /\ Returned("extract_skills")
   /\ ~call.stopwords
   /\ call.skills = <<LeadGeneration>>

\* C6: detect_job_field returns one of the eleven labels, and "General"
\* exactly when no field has a score above 0.
C6_ElevenLabels ==
   /\ Cardinality(FieldNames \cup {"General"}) = 11
   /\ Returned("detect_job_field") =>
         /\ call.field \in FieldNames \cup {"General"}
         /\ (call.field = "General") <=> (\A i \in 1..NumFields : call.scores[i] = 0)

\* C6 witness: a text with words in it, none a keyword, yields "General".
C6_Witness ==
   /\ text = <<"b","2","b"," ","t","h","e">>
   /\ Returned("detect_job_field")
   /\ call.field = "General"

\* What a returned call returned.
Result == <<call.skills, call.field>>

\* C7 as stated: two successive calls of the same entry point on the same
\* text return equal results, whatever the resources at each call.
C7_SameResultWhateverResources ==
   [][(call.op # "none" /\ ~call.raised /\ ~call'.raised /\ call'.op = call.op)
         => Result' = Result]_vars

\* C7 as amended: two successive calls of the same entry point on the same
\* text that tokenize the same way (both with word_tokenize or both by
\* whitespace) return equal results, with or without the stopword list.
C7_SameResultSameTokenizer ==
   [][(/\ call.op # "none" /\ ~call.raised /\ ~call'.raised
       /\ call'.op = call.op
       /\ call'.tokenizer = call.tokenizer)
         => Result' = Result]_vars

\* C7 witness: extract_skills has returned the keywords of a text with a
\* stopword in it, tokenized by word_tokenize without the stopword list, and
\* a second call that tokenizes the same way with the list can follow.
C7_Witness ==
   /\ text = <<"t","h","e"," ","S","q","l",",">>
   /\ Returned("extract_skills")
   /\ call.tokenizer = "word_tokenize"
   /\ ~call.stopwords
   /\ call.skills = <<<<"s","q","l">>>>
   /\ ENABLED (/\ ExtractSkills
               /\ ~call'.raised
               /\ call'.tokenizer = "word_tokenize"
               /\ call'.stopwords)

\* C8: for an absent, empty or whitespace-only text, extract_skills returns
\* the empty list and detect_job_field returns "General", whatever resources
\* the call ran with.
C8_BlankText ==
   text \in BlankTexts =>
      /\ Returned("extract_skills") => call.skills = <<>>
      /\ Returned("detect_job_field") => call.field = "General"

\* C8 witness: detect_job_field has returned "General" for a text of a
\* newline, a space and a tab, tokenized by word_tokenize.
C8_Witness ==
   /\ text = <<"\n"," ","\t">>
   /\ Returned("detect_job_field")
   /\ call.tokenizer = "word_tokenize"
   /\ call.field = "General"

\* The stopword list and a tokenizer are both in the cache.
ResourcesExist ==
   "stopwords" \in installed /\ ("punkt" \in installed \/ "punkt_tab" \in installed)

\* C9: in every call a download is attempted only for a resource whose
\* lookup failed in that call (a tokenizer only after both tokenizer lookups
\* failed), and a call that starts with the stopword list and a tokenizer in
\* the cache attempts no download and leaves the cache as it was.
C9_NoOpOnceResourcesExist ==
   [][/\ "stopwords" \in Range(call'.downloads) => "stopwords" \in call'.lookups_failed
      /\ (Range(call'.downloads) \cap {"punkt", "punkt_tab"} # {})
            => {"punkt", "punkt_tab"} \subseteq call'.lookups_failed
      /\ call'.lookups_failed \cap installed = {}
      /\ ResourcesExist => (call'.downloads = <<>> /\ installed' = installed)]_vars

\* C9 witness: a call has run with the stopword list and punkt_tab, but not
\* punkt, in the cache: the punkt lookup failed and nothing was downloaded.
C9_Witness ==
   /\ call.op # "none"
   /\ installed = {"stopwords", "punkt_tab"}
   /\ call.lookups_failed = {"punkt"}
   /\ call.downloads = <<>>

\* C10: a keyword with a non-alphabetic character in one of its words is
\* never returned by extract_skills and never counted by detect_job_field:
\* each score is the number of satisfied keywords among the alphabetic ones.
C10_NonAlphabeticNeverMatched ==
   /\ NonAlphabetic # {}
   /\ Returned("extract_skills") => Range(call.skills) \cap NonAlphabetic = {}
   /\ Returned("detect_job_field") =>
         \A i \in 1..NumFields :
            call.scores[i] =
               Cardinality({j \in 1..Len(skill_keywords[i].kws) :
                  /\ skill_keywords[i].kws[j] \notin NonAlphabetic
                  /\ Holds(skill_keywords[i].kws[j], call.tokens)})

\* C10 witness: the text "b2b lead" has the keyword "b2b" in it as a word,
\* and detect_job_field, tokenizing by whitespace, scores sales 0.
C10_Witness ==
   /\ text = <<"b","2","b"," ","l","e","a","d">>
   /\ Returned("detect_job_field")
   /\ call.tokenizer = "split"
   /\ call.scores[FieldIndex("sales")] = 0
   /\ call.field = "General"
====
